---- MODULE Spec2Model ----
(***************************************************************************)
(* XMLTableEditor: the XMLWorker document model (xmlworker.cpp) and the    *)
(* MainWindow handlers that drive it (mainwindow.cpp).                     *)
(*                                                                         *)
(* A DOM element is a record [tag, name, text, kids]: its tag name, its    *)
(* "name" attribute ("" when absent), its text content and its child       *)
(* elements in document order.  A node is addressed by its path: the       *)
(* sequence of child positions leading to it from the element the path is  *)
(* relative to.  A file on disk is a record [kind, tree]: kind "xml" is a  *)
(* well-formed document, "bad" a malformed one (tree is what the parser    *)
(* had built when it met the error), "none" a file that cannot be opened.  *)
(* A QTableWidget is a record [cols, rows]; an item is <<text>> and a      *)
(* missing item is <<>>.                                                   *)
(***************************************************************************)
EXTENDS Integers, Sequences, FiniteSets, TLC

VARIABLES
    XmlDocument,          \* XMLWorker::XmlDocument
    CurrentFilePath,      \* XMLWorker::CurrentFilePath
    AvailableTableNames,  \* XMLWorker::AvailableTableNames
    FileLoaded,           \* XMLWorker::FileLoaded
    disk,                 \* the files the worker reads and writes
    DataTable,            \* the QTableWidget handed to the worker
    WinCurrentFilePath,   \* MainWindow::CurrentFilePath
    CurrentTableName,     \* MainWindow::CurrentTableName
    TableComboBox,        \* MainWindow::TableComboBox: [items, index]
    ButtonsEnabled,       \* Add/Delete/Edit/Update/Cancel enabled
    IsAddMode,            \* MainWindow::IsAddMode
    IsDeleteMode,         \* MainWindow::IsDeleteMode
    IsEditMode,           \* MainWindow::IsEditMode
    HasUnsavedChanges,    \* MainWindow::HasUnsavedChanges
    EditTriggers,         \* DataTable->editTriggers()
    pc,                   \* "idle", or "hung" inside a loop that never exits
    last,                 \* the last call made and what it returned
    snapshot,             \* the table and headers of the last LoadTableData that succeeded
    calls                 \* the number of calls and events so far

workerVars == <<XmlDocument, CurrentFilePath, AvailableTableNames, FileLoaded>>
windowVars == <<WinCurrentFilePath, CurrentTableName, TableComboBox, ButtonsEnabled,
                IsAddMode, IsDeleteMode, IsEditMode, HasUnsavedChanges, EditTriggers>>
vars == <<XmlDocument, CurrentFilePath, AvailableTableNames, FileLoaded, disk,
          DataTable, WinCurrentFilePath, CurrentTableName, TableComboBox,
          ButtonsEnabled, IsAddMode, IsDeleteMode, IsEditMode, HasUnsavedChanges,
          EditTriggers, pc, last, snapshot, calls>>

\* ---------------------------------------------------------------- bounds
\* The most rows a grid or a table is grown to.
MaxRows == 2
\* The most calls and events of one run.
MaxCalls == 6

\* ---------------------------------------------------------------- constants
TABLE_ELEMENT_NAME == "table"
ROW_ELEMENT_NAME == "row"
CELL_ELEMENT_NAME == "cell"

\* ---------------------------------------------------------------- DOM
Elem(tag, name, text, kids) == [tag |-> tag, name |-> name, text |-> text, kids |-> kids]

\* QDomDocument(): a document with no root element.
NullDocument == Elem("", "", "", <<>>)

\* A null QDomElement, as a path no node has.
NullPath == <<0>>

isNull(element) == element.tag = ""

RECURSIVE NodeAt(_, _)
NodeAt(node, path) ==
    IF path = <<>> THEN node ELSE NodeAt(node.kids[Head(path)], Tail(path))

RECURSIVE ReplaceAt(_, _, _)
ReplaceAt(node, path, new) ==
    IF path = <<>> THEN new
    ELSE [node EXCEPT !.kids[Head(path)] = ReplaceAt(@, Tail(path), new)]

RemoveIndex(seq, i) == SubSeq(seq, 1, i - 1) \o SubSeq(seq, i + 1, Len(seq))

RECURSIVE Flatten(_)
Flatten(seqs) == IF seqs = <<>> THEN <<>> ELSE Head(seqs) \o Flatten(Tail(seqs))

\* QDomElement::elementsByTagName: every descendant element with the tag, in
\* preorder, as paths relative to the element.
RECURSIVE elementsByTagName(_, _)
elementsByTagName(element, tagname) ==
    Flatten([i \in 1..Len(element.kids) |->
        (IF element.kids[i].tag = tagname THEN << <<i>> >> ELSE <<>>)
        \o LET below == elementsByTagName(element.kids[i], tagname)
           IN  [j \in 1..Len(below) |-> <<i>> \o below[j]]])

\* QDomNode::removeChild: removes a direct child and does nothing for a node
\* that is not a child of this one.
removeChild(element, path) ==
    IF Len(path) = 1 THEN [element EXCEPT !.kids = RemoveIndex(@, path[1])]
    ELSE element

appendChild(element, child) == [element EXCEPT !.kids = Append(@, child)]

\* ---------------------------------------------------------------- files
\* QDomDocument::setContent drops a text node that holds only white space:
\* the text an element is read back with.
ParsedText(text) == IF text = " " THEN "" ELSE text

RECURSIVE ParsedElement(_)
ParsedElement(element) ==
    [element EXCEPT !.text = ParsedText(@),
                    !.kids = [i \in 1..Len(element.kids) |-> ParsedElement(element.kids[i])]]

\* QDomDocument::setContent(&file, ...): the document is cleared and rebuilt
\* from the file; on a parse error it returns false and the document keeps
\* what had been built.
setContent(content) ==
    [ok |-> content.kind = "xml", doc |-> ParsedElement(content.tree)]

\* QDomDocument::toString(4): the text written to the file.  A document
\* without a root element is written as an empty file, which does not parse.
toString(doc) ==
    [kind |-> IF isNull(doc) THEN "bad" ELSE "xml", tree |-> doc]

\* QFile::open(ReadOnly)
CanRead(files, filePath) ==
    filePath \in DOMAIN files /\ files[filePath].kind # "none"

\* ---------------------------------------------------------------- XMLWorker
Worker(doc, path, names, loaded) ==
    [XmlDocument |-> doc, CurrentFilePath |-> path,
     AvailableTableNames |-> names, FileLoaded |-> loaded]

\* QString("Column_%1").arg(i)
ColumnName(i) == "Column_" \o ToString(i)

\* A validation that wants a table element.
ValidateXMLStructureStrict(doc) ==
    ~isNull(doc) /\ Len(elementsByTagName(doc, TABLE_ELEMENT_NAME)) > 0

ValidateXMLStructure(doc) == ~isNull(doc)

\* A listing that keeps the tables without a name.
ParseXMLStructureUnfiltered(doc) ==
    LET tableNodes == elementsByTagName(doc, TABLE_ELEMENT_NAME)
    IN  [i \in 1..Len(tableNodes) |-> NodeAt(doc, tableNodes[i]).name]

ParseXMLStructure(doc) ==
    LET tableNodes == elementsByTagName(doc, TABLE_ELEMENT_NAME)
    IN  SelectSeq([i \in 1..Len(tableNodes) |-> NodeAt(doc, tableNodes[i]).name],
                  LAMBDA tableName : tableName # "")

\* A lookup that returns the last table element named tableName.
FindTableElementLast(doc, tableName) ==
    LET tableNodes == elementsByTagName(doc, TABLE_ELEMENT_NAME)
        hits == {i \in 1..Len(tableNodes) : NodeAt(doc, tableNodes[i]).name = tableName}
    IN  IF hits = {} THEN <<0>>
        ELSE tableNodes[CHOOSE i \in hits : \A j \in hits : i >= j]

\* A lookup that returns the first table element whatever its name.
FindTableElementAny(doc, tableName) ==
    LET tableNodes == elementsByTagName(doc, TABLE_ELEMENT_NAME)
    IN  IF Len(tableNodes) = 0 THEN <<0>> ELSE tableNodes[1]

\* The path of the first table element named tableName, NullPath if none.
FindTableElement(doc, tableName) ==
    LET tableNodes == elementsByTagName(doc, TABLE_ELEMENT_NAME)
        hits == {i \in 1..Len(tableNodes) : NodeAt(doc, tableNodes[i]).name = tableName}
    IN  IF hits = {} THEN NullPath
        ELSE tableNodes[CHOOSE i \in hits : \A j \in hits : i <= j]

\* Headers that keep an empty cell name as it is.
ExtractColumnHeadersRaw(tableElement) ==
    LET rowNodes == elementsByTagName(tableElement, ROW_ELEMENT_NAME)
    IN  IF Len(rowNodes) > 0
        THEN LET firstRow == NodeAt(tableElement, rowNodes[1])
                 cellNodes == elementsByTagName(firstRow, CELL_ELEMENT_NAME)
             IN  [i \in 1..Len(cellNodes) |-> NodeAt(firstRow, cellNodes[i]).name]
        ELSE <<>>

ExtractColumnHeaders(tableElement) ==
    LET rowNodes == elementsByTagName(tableElement, ROW_ELEMENT_NAME)
    IN  IF Len(rowNodes) > 0
        THEN LET firstRow == NodeAt(tableElement, rowNodes[1])
                 cellNodes == elementsByTagName(firstRow, CELL_ELEMENT_NAME)
             IN  [i \in 1..Len(cellNodes) |->
                    LET columnName == NodeAt(firstRow, cellNodes[i]).name
                    IN  IF columnName = "" THEN ColumnName(i) ELSE columnName]
        ELSE <<>>

ExtractTableRows(tableElement) ==
    LET rowNodes == elementsByTagName(tableElement, ROW_ELEMENT_NAME)
    IN  [i \in 1..Len(rowNodes) |->
            LET rowElement == NodeAt(tableElement, rowNodes[i])
                cellNodes == elementsByTagName(rowElement, CELL_ELEMENT_NAME)
            IN  [j \in 1..Len(cellNodes) |-> NodeAt(rowElement, cellNodes[j]).text]]

\* A row whose cells are named by their position and not by the headers.
CreateRowElementNumbered(rowData, columnHeaders) ==
    Elem(ROW_ELEMENT_NAME, "", "",
         [i \in 1..Len(columnHeaders) |->
            Elem(CELL_ELEMENT_NAME, ColumnName(i),
                 IF i <= Len(rowData) THEN rowData[i] ELSE "", <<>>)])

CreateRowElement(rowData, columnHeaders) ==
    Elem(ROW_ELEMENT_NAME, "", "",
         [i \in 1..Len(columnHeaders) |->
            Elem(CELL_ELEMENT_NAME, columnHeaders[i],
                 IF i <= Len(rowData) THEN rowData[i] ELSE "", <<>>)])

\* A load that marks the worker as not loaded when the file cannot be used.
LoadXMLFileResetting(w, files, filePath) ==
    IF filePath = "" THEN [ok |-> FALSE, log |-> "Empty file path provided", w |-> w]
    ELSE IF ~CanRead(files, filePath)
    THEN [ok |-> FALSE, log |-> "Cannot open file", w |-> [w EXCEPT !.FileLoaded = FALSE]]
    ELSE LET parsed == setContent(files[filePath])
         IN  IF ~parsed.ok \/ ~ValidateXMLStructure(parsed.doc)
             THEN [ok |-> FALSE, log |-> "XML parsing failed",
                   w |-> [w EXCEPT !.XmlDocument = parsed.doc, !.FileLoaded = FALSE]]
             ELSE [ok |-> TRUE, log |-> "Successfully loaded XML file",
                   w |-> Worker(parsed.doc, filePath, ParseXMLStructure(parsed.doc), TRUE)]

LoadXMLFile(w, files, filePath) ==
    IF filePath = "" THEN [ok |-> FALSE, log |-> "Empty file path provided", w |-> w]
    ELSE IF ~CanRead(files, filePath)
    THEN [ok |-> FALSE, log |-> "Cannot open file", w |-> w]
    ELSE LET parsed == setContent(files[filePath])
         IN  IF ~parsed.ok
             THEN [ok |-> FALSE, log |-> "XML parsing failed",
                   w |-> [w EXCEPT !.XmlDocument = parsed.doc]]
             ELSE IF ~ValidateXMLStructure(parsed.doc)
             THEN [ok |-> FALSE, log |-> "Invalid XML structure",
                   w |-> [w EXCEPT !.XmlDocument = parsed.doc]]
             ELSE [ok |-> TRUE, log |-> "Successfully loaded XML file",
                   w |-> Worker(parsed.doc, filePath, ParseXMLStructure(parsed.doc), TRUE)]

\* The text of a widget item, "" for a missing one.
ItemText(item) == IF item = <<>> THEN "" ELSE item[1]

\* A LoadTableData that clears the widget before it looks for the table.
LoadTableDataClearing(w, tableName, tableWidget) ==
    IF ~w.FileLoaded \/ tableName = ""
    THEN [ok |-> FALSE, log |-> "Invalid parameters", widget |-> tableWidget]
    ELSE LET path == FindTableElement(w.XmlDocument, tableName)
         IN  IF path = NullPath
             THEN [ok |-> FALSE, log |-> "Table not found",
                   widget |-> [cols |-> <<>>, rows |-> <<>>]]
             ELSE LET tableElement == NodeAt(w.XmlDocument, path)
                      columnHeaders == ExtractColumnHeaders(tableElement)
                      tableRows == ExtractTableRows(tableElement)
                  IN  [ok |-> TRUE, log |-> "Loaded table",
                       widget |->
                         [cols |-> [c \in 1..Len(columnHeaders) |-> <<columnHeaders[c]>>],
                          rows |-> [r \in 1..Len(tableRows) |->
                                     [c \in 1..Len(columnHeaders) |->
                                        IF c <= Len(tableRows[r])
                                        THEN <<tableRows[r][c]>> ELSE <<>>]]]]

LoadTableData(w, tableName, tableWidget) ==
    IF ~w.FileLoaded \/ tableName = ""
    THEN [ok |-> FALSE, log |-> "Invalid parameters", widget |-> tableWidget]
    ELSE LET path == FindTableElement(w.XmlDocument, tableName)
         IN  IF path = NullPath
             THEN [ok |-> FALSE, log |-> "Table not found", widget |-> tableWidget]
             ELSE LET tableElement == NodeAt(w.XmlDocument, path)
                      columnHeaders == ExtractColumnHeaders(tableElement)
                      tableRows == ExtractTableRows(tableElement)
                  IN  [ok |-> TRUE, log |-> "Loaded table",
                       widget |->
                         [cols |-> [c \in 1..Len(columnHeaders) |-> <<columnHeaders[c]>>],
                          rows |-> [r \in 1..Len(tableRows) |->
                                     [c \in 1..Len(columnHeaders) |->
                                        IF c <= Len(tableRows[r])
                                        THEN <<tableRows[r][c]>> ELSE <<>>]]]]

\* An AddRowToTable that puts the new row before the others.
AddRowToTableFirst(w, tableName, rowData) ==
    IF ~w.FileLoaded \/ tableName = ""
    THEN [ok |-> FALSE, log |-> "Invalid parameters", w |-> w]
    ELSE LET path == FindTableElement(w.XmlDocument, tableName)
         IN  IF path = NullPath THEN [ok |-> FALSE, log |-> "Table not found", w |-> w]
             ELSE LET tableElement == NodeAt(w.XmlDocument, path)
                      columnHeaders == ExtractColumnHeaders(tableElement)
                      newRowElement == CreateRowElement(rowData, columnHeaders)
                  IN  [ok |-> TRUE, log |-> "Added new row",
                       w |-> [w EXCEPT !.XmlDocument =
                                ReplaceAt(@, path,
                                    [tableElement EXCEPT
                                        !.kids = <<newRowElement>> \o @])]]

AddRowToTable(w, tableName, rowData) ==
    IF ~w.FileLoaded \/ tableName = ""
    THEN [ok |-> FALSE, log |-> "Invalid parameters", w |-> w]
    ELSE LET path == FindTableElement(w.XmlDocument, tableName)
         IN  IF path = NullPath THEN [ok |-> FALSE, log |-> "Table not found", w |-> w]
             ELSE LET tableElement == NodeAt(w.XmlDocument, path)
                      columnHeaders == ExtractColumnHeaders(tableElement)
                      newRowElement == CreateRowElement(rowData, columnHeaders)
                  IN  [ok |-> TRUE, log |-> "Added new row",
                       w |-> [w EXCEPT !.XmlDocument =
                                ReplaceAt(@, path, appendChild(tableElement, newRowElement))]]

\* A delete that takes an index out of range for the last row.
DeleteRowFromTableClamped(w, tableName, rowIndex) ==
    IF ~w.FileLoaded \/ tableName = ""
    THEN [ok |-> FALSE, log |-> "Invalid parameters", w |-> w]
    ELSE LET path == FindTableElement(w.XmlDocument, tableName)
         IN  IF path = NullPath THEN [ok |-> FALSE, log |-> "Table not found", w |-> w]
             ELSE LET tableElement == NodeAt(w.XmlDocument, path)
                      rowNodes == elementsByTagName(tableElement, ROW_ELEMENT_NAME)
                  IN  IF Len(rowNodes) = 0
                      THEN [ok |-> FALSE, log |-> "Row index is out of range", w |-> w]
                      ELSE [ok |-> TRUE, log |-> "Deleted row",
                            w |-> [w EXCEPT !.XmlDocument =
                                     ReplaceAt(@, path,
                                         removeChild(tableElement,
                                                     rowNodes[Len(rowNodes)]))]]

DeleteRowFromTable(w, tableName, rowIndex) ==
    IF ~w.FileLoaded \/ tableName = "" \/ rowIndex < 0
    THEN [ok |-> FALSE, log |-> "Invalid parameters", w |-> w]
    ELSE LET path == FindTableElement(w.XmlDocument, tableName)
         IN  IF path = NullPath THEN [ok |-> FALSE, log |-> "Table not found", w |-> w]
             ELSE LET tableElement == NodeAt(w.XmlDocument, path)
                      rowNodes == elementsByTagName(tableElement, ROW_ELEMENT_NAME)
                  IN  IF rowIndex >= Len(rowNodes)
                      THEN [ok |-> FALSE, log |-> "Row index is out of range", w |-> w]
                      ELSE [ok |-> TRUE, log |-> "Deleted row",
                            w |-> [w EXCEPT !.XmlDocument =
                                     ReplaceAt(@, path,
                                         removeChild(tableElement, rowNodes[rowIndex + 1]))]]

\* A removal loop that removes the first row only.
RemoveRowsLoopOnce(tableElement) ==
    LET rowNodes == elementsByTagName(tableElement, ROW_ELEMENT_NAME)
    IN  [hung |-> FALSE,
         element |-> IF Len(rowNodes) = 0 THEN tableElement
                     ELSE removeChild(tableElement, rowNodes[1])]

\* A removal loop that removes nothing and ends.
RemoveRowsLoopKeeping(tableElement) == [hung |-> FALSE, element |-> tableElement]

\* The row-removal loop of UpdateCompleteTable: while the live list of row
\* descendants is not empty, removeChild(list.at(0)).  When the first row
\* is not a direct child nothing is removed and the loop never exits.
RECURSIVE RemoveRowsLoop(_)
RemoveRowsLoop(tableElement) ==
    LET rowNodes == elementsByTagName(tableElement, ROW_ELEMENT_NAME)
    IN  IF Len(rowNodes) = 0 THEN [hung |-> FALSE, element |-> tableElement]
        ELSE LET after == removeChild(tableElement, rowNodes[1])
             IN  IF after = tableElement THEN [hung |-> TRUE, element |-> tableElement]
                 ELSE RemoveRowsLoop(after)

\* The header texts UpdateCompleteTable reads from the widget.
WidgetHeaders(tableWidget) ==
    [c \in 1..Len(tableWidget.cols) |->
        IF tableWidget.cols[c] # <<>> THEN tableWidget.cols[c][1] ELSE ColumnName(c)]

\* The cell texts UpdateCompleteTable reads from the widget.
WidgetRows(tableWidget) ==
    [r \in 1..Len(tableWidget.rows) |->
        [c \in 1..Len(tableWidget.cols) |-> ItemText(tableWidget.rows[r][c])]]

RECURSIVE AppendRows(_, _, _)
AppendRows(tableElement, rows, columnHeaders) ==
    IF rows = <<>> THEN tableElement
    ELSE AppendRows(appendChild(tableElement, CreateRowElement(Head(rows), columnHeaders)),
                    Tail(rows), columnHeaders)

UpdateCompleteTable(w, tableName, tableWidget) ==
    IF ~w.FileLoaded \/ tableName = ""
    THEN [ok |-> FALSE, log |-> "Invalid parameters", hung |-> FALSE, w |-> w]
    ELSE LET path == FindTableElement(w.XmlDocument, tableName)
         IN  IF path = NullPath
             THEN [ok |-> FALSE, log |-> "Table not found", hung |-> FALSE, w |-> w]
             ELSE LET columnHeaders == WidgetHeaders(tableWidget)
                      removed == RemoveRowsLoop(NodeAt(w.XmlDocument, path))
                  IN  IF removed.hung
                      THEN [ok |-> FALSE, log |-> "", hung |-> TRUE, w |-> w]
                      ELSE [ok |-> TRUE, log |-> "Updated table", hung |-> FALSE,
                            w |-> [w EXCEPT !.XmlDocument =
                                     ReplaceAt(@, path,
                                         AppendRows(removed.element, WidgetRows(tableWidget),
                                                    columnHeaders))]]

SaveXMLFile(w, files, canWrite) ==
    IF ~w.FileLoaded \/ w.CurrentFilePath = ""
    THEN [ok |-> FALSE, log |-> "No file loaded for saving", files |-> files]
    ELSE IF ~canWrite
    THEN [ok |-> FALSE, log |-> "Cannot open file for writing", files |-> files]
    ELSE [ok |-> TRUE, log |-> "Successfully saved XML file",
          files |-> [files EXCEPT ![w.CurrentFilePath] = toString(w.XmlDocument)]]

\* ---------------------------------------------------------------- inputs
Cell(name, text) == Elem(CELL_ELEMENT_NAME, name, text, <<>>)
Row(cells) == Elem(ROW_ELEMENT_NAME, "", "", cells)
Table(name, kids) == Elem(TABLE_ELEMENT_NAME, name, "", kids)
Root(kids) == Elem("database", "", "", kids)

\* The documents a.xml may hold at the start.
FlatDocument ==
    Root(<<Table("T", <<Row(<<Cell("h1", "a"), Cell("h2", "b")>>),
                        Row(<<Cell("h1", "b"), Cell("h2", "a")>>)>>)>>)
DuplicateDocument ==
    Root(<<Table("T", <<Row(<<Cell("h1", "a")>>)>>), Table("T", <<Row(<<Cell("h1", "b")>>)>>)>>)
UnnamedDocument ==
    Root(<<Table("", <<Row(<<Cell("h1", "a")>>)>>), Table("T", <<>>)>>)
NestedDocument ==
    Root(<<Table("T", <<Elem("group", "", "", <<Row(<<Cell("h1", "a")>>)>>)>>)>>)
RaggedDocument ==
    Root(<<Table("T", <<Row(<<Cell("", "a"), Cell("h2", "b")>>),
                        Row(<<Cell("h1", "b")>>),
                        Row(<<Cell("h1", "a"), Cell("h2", "b"), Cell("h3", "a")>>)>>)>>)
EmptyDocument == Root(<<>>)
\* A root that is not named database, with something that is not a table.
OtherRootDocument == Elem("catalog", "", "", <<Elem("item", "T", "a", <<>>)>>)

Samples == {FlatDocument, DuplicateDocument, UnnamedDocument, NestedDocument,
            RaggedDocument, EmptyDocument, OtherRootDocument}

GoodFile == "a.xml"
BadFile == "bad.xml"
MissingFile == "missing.xml"
FilePaths == {GoodFile, BadFile, MissingFile}

\* The table names a caller passes; no document has a table "X".
TableNames == {"T", "X", ""}

\* The texts typed into a cell.
CellTexts == {"b", " "}

\* The rowData passed to AddRowToTable.
RowDatas == {<<>>, <<"b", "a", "b">>}

NoEditTriggers == "NoEditTriggers"
DoubleClicked == "DoubleClicked"
DoubleClickedOrEditKey == "DoubleClicked|EditKeyPressed"

\* ---------------------------------------------------------------- state
W == Worker(XmlDocument, CurrentFilePath, AvailableTableNames, FileLoaded)

SetWorker(w) ==
    /\ XmlDocument' = w.XmlDocument
    /\ CurrentFilePath' = w.CurrentFilePath
    /\ AvailableTableNames' = w.AvailableTableNames
    /\ FileLoaded' = w.FileLoaded

\* A call is made when no earlier one is still running.
Ready == pc = "idle" /\ calls < MaxCalls /\ calls' = calls + 1

Called(op, ok, log, tableName) == [op |-> op, ok |-> ok, log |-> log, table |-> tableName]

Init ==
    /\ XmlDocument = NullDocument
    /\ CurrentFilePath = ""
    /\ AvailableTableNames = <<>>
    /\ FileLoaded = FALSE
    /\ \E sample \in Samples :
         disk = [p \in FilePaths |->
                   IF p = GoodFile THEN [kind |-> "xml", tree |-> sample]
                   ELSE IF p = BadFile THEN [kind |-> "bad", tree |-> NullDocument]
                   ELSE [kind |-> "none", tree |-> NullDocument]]
    /\ DataTable = [cols |-> <<>>, rows |-> <<>>]
    /\ WinCurrentFilePath = ""
    /\ CurrentTableName = ""
    /\ TableComboBox = [items |-> <<>>, index |-> -1]
    /\ ButtonsEnabled = FALSE
    /\ IsAddMode = FALSE
    /\ IsDeleteMode = FALSE
    /\ IsEditMode = FALSE
    /\ HasUnsavedChanges = FALSE
    /\ EditTriggers = NoEditTriggers
    /\ pc = "idle"
    /\ last = Called("", TRUE, "", "")
    /\ snapshot = [table |-> "", headers |-> <<>>]
    /\ calls = 0

\* ---------------------------------------------------------------- a caller of XMLWorker
CallLoadXMLFile(filePath) ==
    /\ Ready
    /\ LET r == LoadXMLFile(W, disk, filePath)
       IN  /\ SetWorker(r.w)
           /\ last' = Called("LoadXMLFile", r.ok, r.log, "")
    /\ UNCHANGED <<disk, DataTable, windowVars, pc, snapshot>>

CallLoadTableData(tableName) ==
    /\ Ready
    /\ LET r == LoadTableData(W, tableName, DataTable)
       IN  /\ DataTable' = r.widget
           /\ snapshot' = IF r.ok THEN [table |-> tableName,
                                        headers |-> WidgetHeaders(r.widget)]
                          ELSE snapshot
           /\ last' = Called("LoadTableData", r.ok, r.log, tableName)
    /\ UNCHANGED <<workerVars, disk, windowVars, pc>>

CallAddRowToTable(tableName, rowData) ==
    /\ Ready
    /\ LET path == FindTableElement(XmlDocument, tableName)
       IN  path # NullPath =>
             Len(elementsByTagName(NodeAt(XmlDocument, path), ROW_ELEMENT_NAME)) < MaxRows
    /\ LET r == AddRowToTable(W, tableName, rowData)
       IN  /\ SetWorker(r.w)
           /\ last' = Called("AddRowToTable", r.ok, r.log, tableName)
    /\ UNCHANGED <<disk, DataTable, windowVars, pc, snapshot>>

CallDeleteRowFromTable(tableName, rowIndex) ==
    /\ Ready
    /\ LET r == DeleteRowFromTable(W, tableName, rowIndex)
       IN  /\ SetWorker(r.w)
           /\ last' = Called("DeleteRowFromTable", r.ok, r.log, tableName)
    /\ UNCHANGED <<disk, DataTable, windowVars, pc, snapshot>>

CallUpdateCompleteTable(tableName) ==
    /\ Ready
    /\ LET r == UpdateCompleteTable(W, tableName, DataTable)
       IN  /\ SetWorker(r.w)
           /\ pc' = IF r.hung THEN "hung" ELSE "idle"
           /\ last' = Called("UpdateCompleteTable", r.ok, r.log, tableName)
    /\ UNCHANGED <<disk, DataTable, windowVars, snapshot>>

CallSaveXMLFile(canWrite) ==
    /\ Ready
    /\ LET r == SaveXMLFile(W, disk, canWrite)
       IN  /\ disk' = r.files
           /\ last' = Called("SaveXMLFile", r.ok, r.log, "")
    /\ UNCHANGED <<workerVars, DataTable, windowVars, pc, snapshot>>

\* The caller's own changes to the widget it passes to the worker: it keeps
\* the columns and sets the rows.
FillItem(fill, row, col) ==
    IF fill = "blank" THEN <<" ">>
    ELSE IF (row + col) % 2 = 0 THEN <<"a">> ELSE <<"b">>

Fills == {"blank", "ab"}

CallerFillWidget(rowCount, fill) ==
    /\ Ready
    /\ DataTable' = [DataTable EXCEPT
                       !.rows = [r \in 1..rowCount |->
                                   [c \in 1..Len(DataTable.cols) |-> FillItem(fill, r, c)]]]
    /\ last' = Called("setItem", TRUE, "", "")
    /\ UNCHANGED <<workerVars, disk, windowVars, pc, snapshot>>

Next ==
    \/ \E filePath \in FilePaths \cup {""} : CallLoadXMLFile(filePath)
    \/ \E tableName \in TableNames : CallLoadTableData(tableName)
    \/ \E tableName \in TableNames, rowData \in RowDatas : CallAddRowToTable(tableName, rowData)
    \/ \E tableName \in TableNames, rowIndex \in -1..MaxRows :
         CallDeleteRowFromTable(tableName, rowIndex)
    \/ \E tableName \in TableNames : CallUpdateCompleteTable(tableName)
    \/ \E canWrite \in BOOLEAN : CallSaveXMLFile(canWrite)
    \/ \E rowCount \in 0..MaxRows, fill \in Fills : CallerFillWidget(rowCount, fill)

Spec == Init /\ [][Next]_vars

\* ---------------------------------------------------------------- MainWindow
\* The window with its worker and the files, as the handlers read and
\* change them; log is the text of the last message box shown.
Win ==
    [WinCurrentFilePath |-> WinCurrentFilePath, CurrentTableName |-> CurrentTableName,
     TableComboBox |-> TableComboBox, ButtonsEnabled |-> ButtonsEnabled,
     IsAddMode |-> IsAddMode, IsDeleteMode |-> IsDeleteMode, IsEditMode |-> IsEditMode,
     HasUnsavedChanges |-> HasUnsavedChanges, EditTriggers |-> EditTriggers,
     DataTable |-> DataTable, Worker |-> W, disk |-> disk, snapshot |-> snapshot,
     hung |-> FALSE, ok |-> TRUE, log |-> ""]

SetWindow(m) ==
    /\ WinCurrentFilePath' = m.WinCurrentFilePath
    /\ CurrentTableName' = m.CurrentTableName
    /\ TableComboBox' = m.TableComboBox
    /\ ButtonsEnabled' = m.ButtonsEnabled
    /\ IsAddMode' = m.IsAddMode
    /\ IsDeleteMode' = m.IsDeleteMode
    /\ IsEditMode' = m.IsEditMode
    /\ HasUnsavedChanges' = m.HasUnsavedChanges
    /\ EditTriggers' = m.EditTriggers
    /\ DataTable' = m.DataTable
    /\ SetWorker(m.Worker)
    /\ disk' = m.disk
    /\ snapshot' = m.snapshot
    /\ pc' = IF m.hung THEN "hung" ELSE "idle"

\* Body(value), with value computed once.
With(value, Body(_)) == CHOOSE out \in {Body(x) : x \in {value}} : TRUE

\* A reset that leaves the add mode on.
ResetToggleButtonsKeepingAdd(m) ==
    [m EXCEPT !.IsDeleteMode = FALSE, !.IsEditMode = FALSE, !.EditTriggers = NoEditTriggers]

ResetToggleButtons(m) ==
    [m EXCEPT !.IsAddMode = FALSE, !.IsDeleteMode = FALSE, !.IsEditMode = FALSE,
              !.EditTriggers = NoEditTriggers]

EnableTableEditing(m) == [m EXCEPT !.EditTriggers = DoubleClickedOrEditKey]

DisableTableEditing(m) == [m EXCEPT !.EditTriggers = NoEditTriggers]

\* MainWindow::LoadTableData
WindowLoadTableData(m) ==
    IF m.CurrentTableName = "" \/ ~m.Worker.FileLoaded THEN m
    ELSE With(LoadTableData(m.Worker, m.CurrentTableName, m.DataTable),
              LAMBDA r :
                IF r.ok THEN [m EXCEPT !.DataTable = r.widget, !.HasUnsavedChanges = FALSE,
                                       !.snapshot = [table |-> m.CurrentTableName,
                                                     headers |-> WidgetHeaders(r.widget)]]
                ELSE [m EXCEPT !.ok = FALSE, !.log = "Failed to load table data."])

OnTableSelectionChanged(m) ==
    IF m.TableComboBox.index >= 0
    THEN With([m EXCEPT !.CurrentTableName =
                          m.TableComboBox.items[m.TableComboBox.index + 1]],
              LAMBDA selected :
                With(With(selected, WindowLoadTableData),
                     LAMBDA loaded :
                       ResetToggleButtons([loaded EXCEPT !.ButtonsEnabled = TRUE])))
    ELSE m

\* After the combo box is cleared and the grid emptied: the load itself.
LoadIntoWindow(m) ==
    With(LoadXMLFile(m.Worker, m.disk, m.WinCurrentFilePath),
         LAMBDA r :
           IF r.ok
           THEN IF r.w.AvailableTableNames = <<>>
                THEN [m EXCEPT !.Worker = r.w, !.ok = FALSE,
                               !.log = "No tables found in the XML file."]
                ELSE [With([m EXCEPT !.Worker = r.w,
                                     !.TableComboBox = [items |-> r.w.AvailableTableNames,
                                                        index |-> 0]],
                           OnTableSelectionChanged)
                        EXCEPT !.ok = TRUE, !.log = "XML file loaded successfully."]
           ELSE [m EXCEPT !.Worker = r.w, !.ok = FALSE, !.log = "Failed to load XML file."])

OnLoadFileClicked(m) ==
    IF m.WinCurrentFilePath = "" THEN [m EXCEPT !.ok = FALSE, !.log = "No file selected."]
    ELSE With(With([m EXCEPT !.TableComboBox = [items |-> <<>>, index |-> -1]],
                   OnTableSelectionChanged),
              LAMBDA cleared :
                With([cleared EXCEPT !.DataTable = [cols |-> <<>>, rows |-> <<>>]],
                     LoadIntoWindow))

\* filePath is what the file dialog returns, "" when it is cancelled.
OnChooseFileClicked(m, filePath) ==
    IF filePath # "" THEN With([m EXCEPT !.WinCurrentFilePath = filePath], OnLoadFileClicked)
    ELSE m

\* An AddNewRow that also adds the row to the document.
AddNewRowToDocument(m) ==
    [m EXCEPT !.DataTable.rows = Append(@, [c \in 1..Len(m.DataTable.cols) |-> <<"">>]),
              !.Worker = AddRowToTable(m.Worker, m.CurrentTableName, <<>>).w,
              !.EditTriggers = DoubleClicked,
              !.HasUnsavedChanges = TRUE]

AddNewRow(m) ==
    [m EXCEPT !.DataTable.rows = Append(@, [c \in 1..Len(m.DataTable.cols) |-> <<"">>]),
              !.EditTriggers = DoubleClicked,
              !.HasUnsavedChanges = TRUE]

DeleteRow(m, row) ==
    IF row >= 0 /\ row < Len(m.DataTable.rows)
    THEN [m EXCEPT !.DataTable.rows = RemoveIndex(@, row + 1), !.HasUnsavedChanges = TRUE]
    ELSE m

OnAddButtonClicked(m) ==
    IF m.IsAddMode THEN DisableTableEditing([m EXCEPT !.IsAddMode = FALSE])
    ELSE With([ResetToggleButtons(m) EXCEPT !.IsAddMode = TRUE], AddNewRow)

OnDeleteButtonClicked(m) ==
    IF m.IsDeleteMode THEN [m EXCEPT !.IsDeleteMode = FALSE]
    ELSE [ResetToggleButtons(m) EXCEPT !.IsDeleteMode = TRUE, !.log = "Delete Mode"]

OnEditButtonClicked(m) ==
    IF m.IsEditMode THEN DisableTableEditing([m EXCEPT !.IsEditMode = FALSE])
    ELSE EnableTableEditing([ResetToggleButtons(m) EXCEPT !.IsEditMode = TRUE])

\* A save that leaves the modes and the grid as they are.
SaveAndReloadKeepingModes(m, canWrite) ==
    With(SaveXMLFile(m.Worker, m.disk, canWrite),
         LAMBDA saved :
           IF saved.ok
           THEN [m EXCEPT !.disk = saved.files, !.HasUnsavedChanges = FALSE, !.ok = TRUE,
                          !.log = "Changes saved successfully to XML file."]
           ELSE [m EXCEPT !.ok = FALSE, !.log = "Failed to save changes to XML file."])

\* The part of OnUpdateButtonClicked after UpdateCompleteTable has succeeded;
\* canWrite: whether the file can be opened for writing.
SaveAndReload(m, canWrite) ==
    With(SaveXMLFile(m.Worker, m.disk, canWrite),
         LAMBDA saved :
           IF saved.ok
           THEN [With(ResetToggleButtons([m EXCEPT !.disk = saved.files]),
                      WindowLoadTableData)
                   EXCEPT !.HasUnsavedChanges = FALSE, !.ok = TRUE,
                          !.log = "Changes saved successfully to XML file."]
           ELSE [m EXCEPT !.ok = FALSE, !.log = "Failed to save changes to XML file."])

OnUpdateButtonClicked(m, canWrite) ==
    IF ~m.HasUnsavedChanges /\ ~m.IsAddMode /\ ~m.IsDeleteMode /\ ~m.IsEditMode
    THEN [m EXCEPT !.ok = FALSE, !.log = "No changes to save."]
    ELSE With(UpdateCompleteTable(m.Worker, m.CurrentTableName, m.DataTable),
              LAMBDA r :
                IF r.hung THEN [m EXCEPT !.hung = TRUE, !.ok = FALSE]
                ELSE IF r.ok
                THEN With([m EXCEPT !.Worker = r.w],
                          LAMBDA updated : SaveAndReload(updated, canWrite))
                ELSE [m EXCEPT !.ok = FALSE, !.log = "Failed to update table data."])

\* answer: the button pressed in the confirmation box.
OnRowDoubleClicked(m, row, answer) ==
    IF m.IsDeleteMode /\ row >= 0
    THEN IF answer = "Yes"
         THEN [DeleteRow(m, row) EXCEPT !.HasUnsavedChanges = TRUE]
         ELSE [m EXCEPT !.ok = FALSE]
    ELSE [m EXCEPT !.ok = FALSE]

OnCancelButtonClicked(m, answer) ==
    IF ~m.HasUnsavedChanges /\ ~m.IsAddMode /\ ~m.IsDeleteMode /\ ~m.IsEditMode
    THEN [m EXCEPT !.ok = FALSE, !.log = "No changes to discard."]
    ELSE IF answer = "Yes"
    THEN [With(ResetToggleButtons(m), WindowLoadTableData)
            EXCEPT !.HasUnsavedChanges = FALSE,
                   !.log = "All changes have been discarded."]
    ELSE [m EXCEPT !.ok = FALSE]

\* ---------------------------------------------------------------- the user
Handled(op, m) ==
    /\ Ready
    /\ \E after \in {m} :
         /\ SetWindow(after)
         /\ last' = Called(op, after.ok, after.log, after.CurrentTableName)

ClickChooseFile(filePath) ==
    /\ filePath \in FilePaths \cup {""}
    /\ Handled("OnChooseFileClicked",
               With(Win, LAMBDA m : OnChooseFileClicked(m, filePath)))

ClickLoadFile ==
    /\ WinCurrentFilePath # ""
    /\ Handled("OnLoadFileClicked", With(Win, OnLoadFileClicked))

SelectTable(index) ==
    /\ index \in 0..(Len(TableComboBox.items) - 1)
    /\ index # TableComboBox.index
    /\ Handled("OnTableSelectionChanged",
               With([Win EXCEPT !.TableComboBox.index = index], OnTableSelectionChanged))

ClickAdd ==
    /\ ButtonsEnabled
    /\ IsAddMode \/ Len(DataTable.rows) < MaxRows
    /\ Handled("OnAddButtonClicked", With(Win, OnAddButtonClicked))

ClickDelete ==
    /\ ButtonsEnabled
    /\ Handled("OnDeleteButtonClicked", With(Win, OnDeleteButtonClicked))

ClickEdit ==
    /\ ButtonsEnabled
    /\ Handled("OnEditButtonClicked", With(Win, OnEditButtonClicked))

ClickUpdate(canWrite) ==
    /\ ButtonsEnabled
    /\ Handled("OnUpdateButtonClicked",
               With(Win, LAMBDA m : OnUpdateButtonClicked(m, canWrite)))

ClickCancel(answer) ==
    /\ ButtonsEnabled
    /\ Handled("OnCancelButtonClicked",
               With(Win, LAMBDA m : OnCancelButtonClicked(m, answer)))

\* A double click on a cell: cellDoubleClicked reaches OnRowDoubleClicked.
DoubleClickRow(row, answer) ==
    /\ row \in 0..(Len(DataTable.rows) - 1)
    /\ Len(DataTable.cols) > 0
    /\ Handled("OnRowDoubleClicked", With(Win, LAMBDA m : OnRowDoubleClicked(m, row, answer)))

\* The user types a text into a cell the edit triggers let them open.
EditCell(row, col, text) ==
    /\ EditTriggers # NoEditTriggers
    /\ row \in 1..Len(DataTable.rows)
    /\ col \in 1..Len(DataTable.cols)
    /\ Handled("editItem", [Win EXCEPT !.DataTable.rows[row][col] = <<text>>])

NextWindow ==
    \/ \E filePath \in FilePaths \cup {""} : ClickChooseFile(filePath)
    \/ ClickLoadFile
    \/ \E index \in 0..1 : SelectTable(index)
    \/ ClickAdd
    \/ ClickDelete
    \/ ClickEdit
    \/ \E canWrite \in BOOLEAN : ClickUpdate(canWrite)
    \/ \E answer \in {"Yes", "No"} : ClickCancel(answer)
    \/ \E row \in 0..MaxRows, answer \in {"Yes", "No"} : DoubleClickRow(row, answer)
    \/ \E row \in 1..(MaxRows + 1), col \in 1..2, text \in CellTexts : EditCell(row, col, text)

SpecWindow == Init /\ [][NextWindow]_vars

\* ---------------------------------------------------------------- claims
\* What the claims speak of.
TableNodes(doc) == elementsByTagName(doc, TABLE_ELEMENT_NAME)

\* The first table element in document order that bears the name, found
\* without FindTableElement: no table before it bears the name.
FirstNamed(doc, tableName) ==
    With(TableNodes(doc),
         LAMBDA tabs :
           NodeAt(doc, tabs[CHOOSE i \in 1..Len(tabs) :
                              /\ NodeAt(doc, tabs[i]).name = tableName
                              /\ \A j \in 1..(i - 1) : NodeAt(doc, tabs[j]).name # tableName]))

HasTable(doc, tableName) ==
    \E tabs \in {TableNodes(doc)} :
       \E i \in 1..Len(tabs) : NodeAt(doc, tabs[i]).name = tableName

\* C1: a LoadXMLFile that fails leaves the worker as it was: when a file was
\* loaded before the failed call, FileLoaded, CurrentFilePath, the table
\* names and the document are those of before the call.
C1_FailedLoadLeavesWorker ==
    [][\A filePath \in FilePaths \cup {""} :
          (last'.op = "LoadXMLFile" /\ CallLoadXMLFile(filePath) /\ FileLoaded /\ ~last'.ok)
              => UNCHANGED workerVars]_vars

\* C2: what a successful UpdateCompleteTable committed is what the table shows
\* once the document is saved, the file loaded again and the table selected.
C2_CommittedRowsSurviveReopen ==
    (last.op = "UpdateCompleteTable" /\ last.ok) =>
        LET saved == SaveXMLFile(W, disk, TRUE)
            reopened == LoadXMLFile(W, saved.files, CurrentFilePath)
            shown == LoadTableData(reopened.w, last.table, DataTable)
        IN  /\ saved.ok /\ reopened.ok /\ shown.ok
            /\ WidgetRows(shown.widget) = WidgetRows(DataTable)

\* The commit this state follows was of the table selected last.
CommittedSelected ==
    /\ last.op = "UpdateCompleteTable" /\ last.ok
    /\ snapshot.table = last.table

\* C3, as the spec states it: after a commit of the selected table, zero grid
\* rows included, the table's headers are those returned at its selection.
C3_HeadersPersist ==
    CommittedSelected =>
        ExtractColumnHeaders(FirstNamed(XmlDocument, last.table)) = snapshot.headers

\* C3, amended: after a commit of the selected table from a grid whose columns
\* are the selection's, the headers are those returned at the selection when
\* the grid had a row, and there are none when the grid had no row.
C3_HeadersPersistUnlessEmptied ==
    (CommittedSelected /\ WidgetHeaders(DataTable) = snapshot.headers) =>
        ExtractColumnHeaders(FirstNamed(XmlDocument, last.table)) =
            IF Len(DataTable.rows) = 0 THEN <<>> ELSE snapshot.headers

C3_CommittedWithRows ==
    /\ CommittedSelected
    /\ Len(DataTable.rows) >= 1
    /\ Len(snapshot.headers) >= 2

\* C4: every operation comes to an end, on every document
\* ValidateXMLStructure accepts.
C4_OperationsTerminate == pc # "hung"

\* C5: a confirmed Cancel whose reload went through leaves the grid showing
\* the selected table as the file on disk holds it.
C5_CancelShowsSavedTable ==
    (/\ last.op = "OnCancelButtonClicked"
     /\ last.ok
     /\ last.log = "All changes have been discarded.") =>
        LET fromDisk == LoadXMLFile(W, disk, CurrentFilePath)
            shown == LoadTableData(fromDisk.w, CurrentTableName, DataTable)
        IN  /\ fromDisk.ok /\ shown.ok
            /\ DataTable = shown.widget

\* The row elements that are children of the table element.
RowChildren(tableElement) ==
    SelectSeq(tableElement.kids, LAMBDA kid : kid.tag = ROW_ELEMENT_NAME)

\* C6: after UpdateCompleteTable succeeds the table's rows are one row per
\* grid row, in grid order, each with one cell per header, named by the header
\* and holding the grid's text at that place ("" for a missing item); no row
\* of before remains.
C6_ReplaceRowsResult ==
    (last.op = "UpdateCompleteTable" /\ last.ok) =>
        LET tableElement == FirstNamed(XmlDocument, last.table)
            rowKids == RowChildren(tableElement)
        IN  /\ Len(rowKids) = Len(DataTable.rows)
            /\ Len(elementsByTagName(tableElement, ROW_ELEMENT_NAME)) = Len(DataTable.rows)
            /\ \A r \in 1..Len(rowKids) :
                 /\ Len(rowKids[r].kids) = Len(DataTable.cols)
                 /\ \A c \in 1..Len(DataTable.cols) :
                      /\ rowKids[r].kids[c].tag = CELL_ELEMENT_NAME
                      /\ rowKids[r].kids[c].name = WidgetHeaders(DataTable)[c]
                      /\ rowKids[r].kids[c].text =
                            (IF DataTable.rows[r][c] = <<>> THEN ""
                             ELSE DataTable.rows[r][c][1])

C6_CommittedMissingItem ==
    /\ last.op = "UpdateCompleteTable" /\ last.ok
    /\ Len(DataTable.cols) >= 2
    /\ Len(DataTable.rows) >= 2
    /\ \E r \in 1..Len(DataTable.rows) : \E c \in 1..Len(DataTable.cols) :
          DataTable.rows[r][c] = <<>>

\* C7: saving a loaded document and loading the file again gives the same
\* table names and, for every table, the same headers and the same rows.
C7_RoundTrip ==
    (last.op = "SaveXMLFile" /\ last.ok /\ ValidateXMLStructure(XmlDocument)) =>
        LET reopened == LoadXMLFile(W, disk, CurrentFilePath)
            before == TableNodes(XmlDocument)
            after == TableNodes(reopened.w.XmlDocument)
        IN  /\ reopened.ok
            /\ reopened.w.AvailableTableNames = AvailableTableNames
            /\ Len(after) = Len(before)
            /\ \A i \in 1..Len(before) :
                 LET old == NodeAt(XmlDocument, before[i])
                     new == NodeAt(reopened.w.XmlDocument, after[i])
                 IN  /\ ExtractColumnHeaders(new) = ExtractColumnHeaders(old)
                     /\ ExtractTableRows(new) = ExtractTableRows(old)

\* The tables a by-name call with tableName must leave alone: those of
\* another name and those that come after the first one of that name.
OthersKept(tableName) ==
    \E tabs \in {TableNodes(XmlDocument)} :
        /\ TableNodes(XmlDocument') = tabs
        /\ \A i \in 1..Len(tabs) :
             (\/ NodeAt(XmlDocument, tabs[i]).name # tableName
              \/ \E j \in 1..(i - 1) : NodeAt(XmlDocument, tabs[j]).name = tableName)
                 => NodeAt(XmlDocument', tabs[i]) = NodeAt(XmlDocument, tabs[i])

\* C8: with tables that share a name, every by-name operation acts on the
\* first of them in document order: LoadTableData shows it, a commit writes
\* it, an add grows it, and a commit, an add or a delete leaves every later
\* table of that name (and every other table) as it was.
C8_FirstMatchLookup ==
    [][\A tableName \in TableNames :
          /\ (last'.op = "LoadTableData" /\ CallLoadTableData(tableName) /\ last'.ok) =>
                LET tableElement == FirstNamed(XmlDocument, tableName)
                    tableRows == ExtractTableRows(tableElement)
                IN  /\ WidgetHeaders(DataTable') = ExtractColumnHeaders(tableElement)
                    /\ Len(DataTable'.rows) = Len(tableRows)
                    /\ \A r \in 1..Len(tableRows) : \A c \in 1..Len(DataTable'.cols) :
                         ItemText(DataTable'.rows[r][c]) =
                            (IF c <= Len(tableRows[r]) THEN tableRows[r][c] ELSE "")
          /\ (/\ last'.op = "UpdateCompleteTable" /\ last'.table = tableName
              /\ CallUpdateCompleteTable(tableName) /\ last'.ok) =>
                /\ OthersKept(tableName)
                /\ ExtractTableRows(FirstNamed(XmlDocument', tableName)) = WidgetRows(DataTable)
          /\ (/\ last'.op = "AddRowToTable" /\ last'.table = tableName
              /\ \E rowData \in RowDatas : CallAddRowToTable(tableName, rowData)
              /\ last'.ok) =>
                /\ OthersKept(tableName)
                /\ Len(RowChildren(FirstNamed(XmlDocument', tableName))) =
                      Len(RowChildren(FirstNamed(XmlDocument, tableName))) + 1
          /\ (/\ last'.op = "DeleteRowFromTable" /\ last'.table = tableName
              /\ \E rowIndex \in -1..MaxRows : CallDeleteRowFromTable(tableName, rowIndex)
              /\ last'.ok) =>
                OthersKept(tableName)]_vars

\* Two tables bear the name.
SharedName(doc, tableName) ==
    \E i, j \in 1..Len(TableNodes(doc)) :
        /\ i < j
        /\ NodeAt(doc, TableNodes(doc)[i]).name = tableName
        /\ NodeAt(doc, TableNodes(doc)[j]).name = tableName

C8_CommittedSharedName ==
    /\ last.op = "UpdateCompleteTable" /\ last.ok
    /\ SharedName(XmlDocument, last.table)
    /\ Len(DataTable.rows) >= 1

\* C9: after a successful load GetTableNames is the name of every table
\* element in document order, without the empty names and with a name as many
\* times as tables bear it.
C9_ListTableNames ==
    (last.op = "LoadXMLFile" /\ last.ok) =>
        LET tabs == TableNodes(XmlDocument)
            named == {i \in 1..Len(tabs) : NodeAt(XmlDocument, tabs[i]).name # ""}
        IN  /\ Len(AvailableTableNames) = Cardinality(named)
            /\ \A i \in named :
                 AvailableTableNames[Cardinality({j \in named : j <= i})] =
                    NodeAt(XmlDocument, tabs[i]).name

C9_LoadedWithUnnamedTable ==
    /\ last.op = "LoadXMLFile" /\ last.ok
    /\ Len(AvailableTableNames) >= 1
    /\ Len(TableNodes(XmlDocument)) > Len(AvailableTableNames)

\* C10: DeleteRowFromTable with an index below zero, or at or above the
\* number of rows of the table, fails and leaves the document as it was.
\* Stated by its contrapositive: a step of the call that succeeded or changed
\* the worker was made with no such index.
C10_DeleteBounds ==
    [][\A tableName \in TableNames :
          (/\ last'.op = "DeleteRowFromTable" /\ last'.table = tableName
           /\ ~(~last'.ok /\ UNCHANGED workerVars)
           /\ FileLoaded
           /\ HasTable(XmlDocument, tableName))
             => \A rowIndex \in -1..MaxRows :
                   (\/ rowIndex < 0
                    \/ rowIndex >= Len(ExtractTableRows(FirstNamed(XmlDocument, tableName))))
                      => ~CallDeleteRowFromTable(tableName, rowIndex)]_vars

C10_IndexOutOfRange ==
    /\ last.op = "DeleteRowFromTable"
    /\ ~last.ok
    /\ last.log = "Row index is out of range"
    /\ Len(ExtractTableRows(FirstNamed(XmlDocument, last.table))) >= 1

\* C11: a DeleteRowFromTable that returns success for index i leaves the
\* table with the rows it had, in their order, without the one at position i.
C11_DeleteSuccess ==
    [][\A tableName \in TableNames :
          (/\ last'.op = "DeleteRowFromTable" /\ last'.table = tableName
           /\ last'.ok)
             => \A rowIndex \in -1..MaxRows :
                   CallDeleteRowFromTable(tableName, rowIndex) =>
                      /\ rowIndex >= 0
                      /\ ExtractTableRows(FirstNamed(XmlDocument', tableName)) =
                            RemoveIndex(ExtractTableRows(FirstNamed(XmlDocument, tableName)),
                                        rowIndex + 1)]_vars

\* C12: a second UpdateCompleteTable with the same table name and the same
\* grid leaves the table with the headers and the rows the first one left.
C12_ReplaceIdempotent ==
    (last.op = "UpdateCompleteTable" /\ last.ok) =>
        LET again == UpdateCompleteTable(W, last.table, DataTable)
            once == FirstNamed(XmlDocument, last.table)
            twice == FirstNamed(again.w.XmlDocument, last.table)
        IN  /\ again.ok /\ ~again.hung
            /\ ExtractColumnHeaders(twice) = ExtractColumnHeaders(once)
            /\ ExtractTableRows(twice) = ExtractTableRows(once)

C12_CommittedTwoRows ==
    /\ last.op = "UpdateCompleteTable" /\ last.ok
    /\ Len(DataTable.rows) = 2
    /\ Len(DataTable.cols) >= 1
    /\ Len(RowChildren(FirstNamed(XmlDocument, last.table))) = 2

\* The row elements of a table and the cell elements of a row, as nodes.
RowsOf(tableElement) ==
    LET rowNodes == elementsByTagName(tableElement, ROW_ELEMENT_NAME)
    IN  [r \in 1..Len(rowNodes) |-> NodeAt(tableElement, rowNodes[r])]

CellsOf(rowElement) ==
    LET cellNodes == elementsByTagName(rowElement, CELL_ELEMENT_NAME)
    IN  [c \in 1..Len(cellNodes) |-> NodeAt(rowElement, cellNodes[c])]

\* C13: LoadTableData sets the grid's columns to the names of the cells of
\* the first row, in order, Column_<position> for a cell without a name; the
\* grid has one row per row of the table, and the item at (r, c) holds the
\* text of the c-th cell of row r; cells beyond the columns are dropped, and
\* where a row has no c-th cell no item is set. A table without rows gives
\* no columns.
C13_HeadersAndPositionalRead ==
    (last.op = "LoadTableData" /\ last.ok) =>
        LET rows == RowsOf(FirstNamed(XmlDocument, last.table))
            firstCells == IF rows = <<>> THEN <<>> ELSE CellsOf(rows[1])
        IN  /\ Len(DataTable.cols) = Len(firstCells)
            /\ \A c \in 1..Len(firstCells) :
                 DataTable.cols[c] =
                    << IF firstCells[c].name = "" THEN "Column_" \o ToString(c)
                       ELSE firstCells[c].name >>
            /\ Len(DataTable.rows) = Len(rows)
            /\ \A r \in 1..Len(rows) :
                 /\ Len(DataTable.rows[r]) = Len(firstCells)
                 /\ \A c \in 1..Len(firstCells) :
                      DataTable.rows[r][c] =
                         IF c <= Len(CellsOf(rows[r])) THEN << CellsOf(rows[r])[c].text >>
                         ELSE <<>>

C13_LoadedRaggedTable ==
    /\ last.op = "LoadTableData" /\ last.ok
    /\ \E c \in 1..Len(DataTable.cols) : DataTable.cols[c] = <<"Column_1">>
    /\ \E r \in 1..Len(DataTable.rows) : \E c \in 1..Len(DataTable.cols) :
          DataTable.rows[r][c] = <<>>
    /\ \E r \in 1..Len(DataTable.rows) :
          Len(CellsOf(RowsOf(FirstNamed(XmlDocument, last.table))[r])) > Len(DataTable.cols)

\* C14: once a file is loaded FileLoaded stays true, whatever is called
\* next, and UpdateCompleteTable and SaveXMLFile change none of FileLoaded,
\* CurrentFilePath and AvailableTableNames.
C14_SessionStaysLoaded ==
    [][/\ FileLoaded => FileLoaded'
       /\ last'.op \in {"UpdateCompleteTable", "SaveXMLFile"} =>
             UNCHANGED <<FileLoaded, CurrentFilePath, AvailableTableNames>>]_vars

C14_LoadedAfterFailedLoad ==
    /\ last.op = "LoadXMLFile" /\ ~last.ok
    /\ FileLoaded
    /\ CurrentFilePath = GoodFile

\* C15: LoadTableData, UpdateCompleteTable, AddRowToTable and
\* DeleteRowFromTable fail when no file is loaded, when the table name is
\* empty and when no table bears the name, SaveXMLFile fails when no file is
\* loaded, and then the worker, the grid and the files are as before.
C15_FailedPreconditionKeepsAll ==
    [][(\/ /\ last'.op \in {"LoadTableData", "UpdateCompleteTable",
                            "AddRowToTable", "DeleteRowFromTable"}
           /\ \/ ~FileLoaded
              \/ last'.table = ""
              \/ ~HasTable(XmlDocument, last'.table)
        \/ /\ last'.op = "SaveXMLFile"
           /\ ~FileLoaded)
          => (~last'.ok /\ pc' = "idle" /\ UNCHANGED <<workerVars, DataTable, disk>>)]_vars

C15_TableNotFoundWithGrid ==
    /\ last.op = "LoadTableData" /\ ~last.ok
    /\ last.log = "Table not found"
    /\ Len(DataTable.rows) >= 1

\* C16: adding a row to the grid, deleting a grid row by a double click,
\* editing a grid cell and toggling a mode leave the worker and the files as
\* they are; the document changes only in the handlers that commit or load.
C16_GridEditsKeepDocument ==
    [][/\ last'.op \in {"OnAddButtonClicked", "OnDeleteButtonClicked", "OnEditButtonClicked",
                        "OnRowDoubleClicked", "editItem"} =>
             UNCHANGED <<workerVars, disk>>
       /\ XmlDocument' # XmlDocument =>
             last'.op \in {"OnUpdateButtonClicked", "OnChooseFileClicked",
                           "OnLoadFileClicked"}]_vars

C16_GridRowDeletedOnly ==
    /\ last.op = "OnRowDoubleClicked" /\ last.ok
    /\ HasUnsavedChanges
    /\ HasTable(XmlDocument, CurrentTableName)
    /\ Len(DataTable.rows) < Len(RowsOf(FirstNamed(XmlDocument, CurrentTableName)))

\* C17: LoadXMLFile of a well-formed file with a root element succeeds
\* whatever the root is named, and sets FileLoaded; with no table element in
\* it GetTableNames is empty.
C17_PermissiveValidation ==
    [][\A filePath \in FilePaths :
          (/\ last'.op = "LoadXMLFile"
           /\ disk[filePath].kind = "xml"
           /\ ~isNull(disk[filePath].tree)
           /\ CallLoadXMLFile(filePath))
             => /\ last'.ok
                /\ FileLoaded'
                /\ CurrentFilePath' = filePath
                /\ TableNodes(XmlDocument') = <<>> => AvailableTableNames' = <<>>]_vars

C17_LoadedOtherRootWithoutTables ==
    /\ last.op = "LoadXMLFile" /\ last.ok
    /\ FileLoaded
    /\ XmlDocument.tag # "database"
    /\ TableNodes(XmlDocument) = <<>>
    /\ AvailableTableNames = <<>>

\* C18: at most one of IsAddMode, IsDeleteMode and IsEditMode is true.
C18_ModesExclusive ==
    /\ ~(IsAddMode /\ IsDeleteMode)
    /\ ~(IsAddMode /\ IsEditMode)
    /\ ~(IsDeleteMode /\ IsEditMode)

C18_SwitchedToEditMode ==
    /\ last.op = "OnEditButtonClicked"
    /\ IsEditMode
    /\ HasUnsavedChanges

\* C19: AddRowToTable on a table that exists appends one row after all the
\* table held: one cell per header of the table as it was, named by the
\* header, with the value of rowData at that place or "" beyond its end;
\* what the table held before and every other table stay as they were.
C19_AddRowAppends ==
    [][\A tableName \in TableNames :
          (/\ last'.op = "AddRowToTable" /\ last'.table = tableName
           /\ FileLoaded
           /\ tableName # ""
           /\ HasTable(XmlDocument, tableName))
             => \A rowData \in RowDatas :
                   CallAddRowToTable(tableName, rowData) =>
                      \E old \in {FirstNamed(XmlDocument, tableName)},
                         new \in {FirstNamed(XmlDocument', tableName)} :
                      \E headers \in {ExtractColumnHeaders(old)},
                         added \in {new.kids[Len(new.kids)]} :
                          /\ last'.ok
                          /\ OthersKept(tableName)
                          /\ [new EXCEPT !.kids = old.kids] = old
                          /\ Len(new.kids) = Len(old.kids) + 1
                          /\ SubSeq(new.kids, 1, Len(old.kids)) = old.kids
                          /\ added.tag = ROW_ELEMENT_NAME
                          /\ Len(added.kids) = Len(headers)
                          /\ \A c \in 1..Len(headers) :
                               /\ added.kids[c].tag = CELL_ELEMENT_NAME
                               /\ added.kids[c].name = headers[c]
                               /\ added.kids[c].kids = <<>>
                               /\ added.kids[c].text =
                                     (IF c <= Len(rowData) THEN rowData[c] ELSE "")]_vars

C19_AddedToTableWithRows ==
    /\ last.op = "AddRowToTable" /\ last.ok
    /\ Len(RowChildren(FirstNamed(XmlDocument, last.table))) >= 2
    /\ LET rows == RowChildren(FirstNamed(XmlDocument, last.table))
       IN  /\ Len(rows[Len(rows)].kids) >= 2
           /\ rows[Len(rows)].kids[1].text = "b"

\* C20: OnUpdateButtonClicked writes the file only when UpdateCompleteTable
\* has succeeded; when the commit and the save succeed the three mode flags
\* and HasUnsavedChanges are false, the file holds the document and the grid
\* shows the table as the document holds it; when the commit fails, or
\* there is nothing to commit, the file is not written.
C20_UpdateOrdering ==
    [][last'.op = "OnUpdateButtonClicked" =>
          \E commit \in {UpdateCompleteTable(W, CurrentTableName, DataTable)} :
             /\ last'.log = "Changes saved successfully to XML file." =>
                   /\ ~IsAddMode' /\ ~IsDeleteMode' /\ ~IsEditMode'
                   /\ ~HasUnsavedChanges'
                   /\ EditTriggers' = NoEditTriggers
                   /\ commit.ok
                   /\ XmlDocument' = commit.w.XmlDocument
                   /\ disk' = [disk EXCEPT ![CurrentFilePath] = toString(XmlDocument')]
                   /\ \E t \in {FirstNamed(XmlDocument', CurrentTableName')} :
                      \E tableRows \in {ExtractTableRows(t)} :
                        /\ WidgetHeaders(DataTable') = ExtractColumnHeaders(t)
                        /\ Len(DataTable'.cols) = Len(ExtractColumnHeaders(t))
                        /\ WidgetRows(DataTable') =
                              [r \in 1..Len(tableRows) |->
                                 [c \in 1..Len(DataTable'.cols) |->
                                    IF c <= Len(tableRows[r]) THEN tableRows[r][c] ELSE ""]]
             /\ last'.log # "Changes saved successfully to XML file." => disk' = disk
             /\ ~commit.ok => disk' = disk]_vars

C20_SavedGridWithRows ==
    /\ last.op = "OnUpdateButtonClicked"
    /\ last.log = "Changes saved successfully to XML file."
    /\ Len(DataTable.rows) >= 1
    /\ Len(DataTable.cols) >= 1

\* C21: when OnUpdateButtonClicked commits and saves, the grid it commits has
\* the columns LoadTableData set from the table named CurrentTableName, and
\* the file written is the one the window shows as its current file; a grid
\* that a later OnLoadFileClicked cleared is not committed over the file
\* loaded before.
C21_CommitUsesPopulatedGrid ==
    [][(/\ last'.op = "OnUpdateButtonClicked"
        /\ last'.log = "Changes saved successfully to XML file.")
          => /\ snapshot.table = CurrentTableName
             /\ WidgetHeaders(DataTable) = snapshot.headers
             /\ CurrentFilePath = WinCurrentFilePath]_vars

\* C22: while FileLoaded is true every name GetTableNames returns is the
\* name of a table FindTableElement finds in the document.
C22_NamesResolvable ==
    FileLoaded =>
        \A n \in 1..Len(AvailableTableNames) :
            FindTableElement(XmlDocument, AvailableTableNames[n]) # NullPath

\* C23: whenever the grid, filled from the selected table of the file the
\* window shows, differs from that table in the document, HasUnsavedChanges
\* or one of the mode flags is set, so that Update commits the grid.
C23_PendingEditsTracked ==
    (/\ HasTable(XmlDocument, CurrentTableName)
     /\ CurrentFilePath = WinCurrentFilePath
     /\ snapshot.table = CurrentTableName
     /\ WidgetHeaders(DataTable) = snapshot.headers
     /\ DataTable # LoadTableData(W, CurrentTableName, DataTable).widget)
        => (HasUnsavedChanges \/ IsAddMode \/ IsDeleteMode \/ IsEditMode)

\* C24: UpdateCompleteTable called right after a successful LoadTableData of
\* the same table, with the grid as LoadTableData left it, leaves the
\* table's extracted headers and extracted rows as they were.
C24_UneditedCommitKeepsContent ==
    [][(/\ last.op = "LoadTableData"
        /\ last.ok
        /\ last'.op = "UpdateCompleteTable"
        /\ last'.table = last.table
        /\ last'.ok)
          => \E before \in {FindTableElement(XmlDocument, last.table)} :
             \E after \in {FindTableElement(XmlDocument', last.table)} :
                /\ ExtractColumnHeaders(NodeAt(XmlDocument', after))
                     = ExtractColumnHeaders(NodeAt(XmlDocument, before))
                /\ ExtractTableRows(NodeAt(XmlDocument', after))
                     = ExtractTableRows(NodeAt(XmlDocument, before))]_vars

\* C25: a call of UpdateCompleteTable, AddRowToTable or DeleteRowFromTable
\* with a table name, whether it succeeds or fails, keeps the number, the
\* order and the names of the table elements, and keeps the extracted
\* headers and rows of every table element other than the first one bearing
\* that name, unnamed tables included.
C25_CommitTouchesOnlyTarget ==
    [][last'.op \in {"UpdateCompleteTable", "AddRowToTable", "DeleteRowFromTable"}
         => \E before \in {TableNodes(XmlDocument)} :
            \E after \in {TableNodes(XmlDocument')} :
               /\ Len(after) = Len(before)
               /\ \A i \in 1..Len(before) :
                    \E old \in {NodeAt(XmlDocument, before[i])} :
                    \E new \in {NodeAt(XmlDocument', after[i])} :
                       /\ new.name = old.name
                       /\ (\/ old.name # last'.table
                           \/ \E j \in 1..(i - 1) :
                                 NodeAt(XmlDocument, before[j]).name = last'.table)
                            => /\ ExtractColumnHeaders(new) = ExtractColumnHeaders(old)
                               /\ ExtractTableRows(new) = ExtractTableRows(old)]_vars

\* A by-name call has changed its table in a document that also holds an
\* unnamed table with a row.
C25_ChangedBesideUnnamedTable ==
    /\ last.op \in {"UpdateCompleteTable", "AddRowToTable", "DeleteRowFromTable"}
    /\ last.ok
    /\ HasTable(XmlDocument, last.table)
    /\ RowsOf(FirstNamed(XmlDocument, last.table)) # <<>>
    /\ \E tabs \in {TableNodes(XmlDocument)} :
          \E i \in 1..Len(tabs) :
             /\ NodeAt(XmlDocument, tabs[i]).name = ""
             /\ RowsOf(NodeAt(XmlDocument, tabs[i])) # <<>>
====
